---- MODULE Spec2Model ----
(***************************************************************************)
(* A model of the child-reaping service of src/src/process.rs:             *)
(* ProcessWaiter (the WAITER singleton and its reaper thread), Process     *)
(* and ProcessHandle.  Spawner threads, the reaper thread and the kernel   *)
(* (children changing state, SIGCHLD, waitpid) are interleaved step by     *)
(* step; the waiter mutex, its poisoning by a panic, and the mpsc channel  *)
(* of every ChanPair are explicit.                                         *)
(*                                                                         *)
(* Spec is that service; FinishSpec is the same service with one spawner,  *)
(* a longer clock and more trace-stops.  StartupSpec is the construction   *)
(* of WAITER and the SIGCHLD mask of every thread, ProcessSpec the calls   *)
(* on one Process value, and SolverSpec one call of                        *)
(* DynamorioSolver::get_inst_count (src/src/dynamorio.rs).                 *)
(***************************************************************************)
EXTENDS Integers, Sequences, FiniteSets, TLC

\* ---------------------------------------------------------------- bounds
\* Number of spawner threads; each builds one Process and spawns it once.
MaxTasks == 2
\* Number of pids the kernel can hand out.
MaxPid == 2
\* Most trace-stops a traced child makes before it can exit.
MaxStops == 1
\* Last instant of the clock; timeouts range over 0..MaxTime.
MaxTime == 1
\* Largest stdin payload (bytes) of a Process.
MaxInput == 1
\* Number of threads the host creates besides its main thread.
MaxThreads == 2
\* Instruction counts 0..MaxSmall are all tried, besides the chosen large ones.
MaxSmall == 12
\* Most forks of one Process the model follows.
MaxForks == 2
\* Last instant of the clock, and most trace-stops of a child, when one finish
\* is followed alone.
MaxClock == 3
MaxEvents == 2
\* Most bytes written to the stdin of one child.
MaxWritten == 2

\* Capacity of the pipe to a child's stdin, in the unit of `input` (the
\* kernel's is 64 KiB), and the largest payload of the spawn specification,
\* one unit more than the pipe holds.
PipeCap == 1

MaxPayload == PipeCap + 1

Tasks == 1..MaxTasks
Pids == 1..MaxPid
\* Every ChanPair ever created: at most one per pid by the reaper or a
\* spawner, plus one per removal by a finish.
MaxChans == MaxPid + MaxTasks
Chans == 1..MaxChans

\* The values of `holder` that are not a spawner thread.
Unlocked == 0
ReaperThread == MaxTasks + 1

VARIABLES
    kstate,      \* kernel: the state of each pid's process
    stopsLeft,   \* kernel: trace-stops a child still makes before it can exit
    sigpending,  \* kernel: SIGCHLD is pending for the process (signals coalesce)
    wstatus,     \* kernel: the last WaitStatus waitpid returned for each pid
    reaped,      \* kernel: every WaitStatus waitpid returned for each pid, in order
    reuse,       \* kernel: whether a reaped pid may be handed out again
    now,         \* the monotonic clock (Instant::now())
    rpc,         \* reaper thread: position in spawn_waiting_thread's loop
    holder,      \* the waiter mutex: Unlocked, ReaperThread or the task holding it
    poisoned,    \* the waiter mutex: a thread panicked while holding it
    proc_chans,  \* ProcessWaiterInner.proc_chans: pid -> ChanPair (0: no entry)
    chans,       \* every ChanPair/channel created so far
    task,        \* every spawner thread: its Process, its ProcessHandle, its position
    thr,         \* start-up: every thread of the process, its SIGCHLD mask, its position
    once,        \* start-up: the Once of the lazy_static WAITER
    nwaiters,    \* start-up: ProcessWaiter values constructed so far
    nstarts,     \* start-up: reaper threads started so far
    sigchld,     \* start-up: what became of the last SIGCHLD raised
    solver,      \* DynamorioSolver: one call of get_inst_count
    proc         \* Process: one Process value and the calls made on it

vars == <<kstate, stopsLeft, sigpending, wstatus, reaped, reuse, now, rpc, holder, poisoned,
          proc_chans, chans, task, thr, once, nwaiters, nstarts, sigchld, solver, proc>>

\* The variables of each component.  Every specification below exercises one
\* component; the variables of the others keep their initial values.
service == <<kstate, stopsLeft, sigpending, wstatus, reaped, reuse, now, rpc, holder, poisoned,
             proc_chans, chans, task>>
startup == <<thr, once, nwaiters, nstarts, sigchld>>
others == <<startup, solver, proc>>

kernel == <<kstate, stopsLeft, sigpending, wstatus, reaped>>
mutex == <<holder, poisoned>>
waiter == <<proc_chans, chans>>

\* WaitData { status, pid }
WaitData(p, s) == [pid |-> p, status |-> s]
NoData == [pid |-> 0, status |-> "none"]

\* A channel that was never created.
NoChan == [key |-> 0, queue |-> <<>>, sender |-> FALSE, receiver |-> "none",
           creator |-> "none"]

\* ChanPair::new: a channel with both ends alive, the receiver still in the pair.
ChanPairNew(p, who) == [key |-> p, queue |-> <<>>, sender |-> TRUE,
                        receiver |-> "inpair", creator |-> who]

\* The threads of the process: the main thread, the threads the host creates,
\* and the thread spawn_waiting_thread creates.
MainThread == 0
Workers == 1..MaxThreads
WaitingThread == MaxThreads + 1
Thr == 0..WaitingThread

\* A thread that was not created yet.  `blocked` is its SIGCHLD mask, `born` the
\* mask it was created with, `called` whether it has called block_signal, `uses`
\* whether it holds a reference to WAITER, `started` the field of the
\* ProcessWaiter it is constructing.
NoThread == [st |-> "none", blocked |-> FALSE, born |-> FALSE, called |-> FALSE,
             uses |-> FALSE, started |-> FALSE]

NewTask == [pc |-> "new", ptrace |-> FALSE, input |-> 0, child |-> 0,
            startres |-> "none", spawnres |-> "none",
            pid |-> 0, recv |-> 0,
            timeout |-> 0, start |-> 0, time_left |-> 0, recv_at |-> 0,
            recvres |-> "none", data |-> NoData,
            result |-> "none", retpid |-> 0, removed |-> FALSE, panic |-> "none",
            events |-> <<>>]

\* One call of get_inst_count.  `dynpath`: vars has the key; `spawned`:
\* processes spawned; `finres`: what finish returned; `reads`: calls of
\* read_stdout; `n`: the count the child printed (<<>>: none); `first`: that
\* line is the first match of the stdout; `result`, `value`, `message`: what
\* the call returned.
NewCall == [pc |-> "idle", dynpath |-> FALSE, spawned |-> 0, finres |-> "none",
            reads |-> 0, readres |-> "none", stdout |-> <<>>, n |-> <<>>,
            first |-> FALSE, result |-> "none", value |-> <<>>, message |-> ""]

\* Process::new: one Process value and the calls a caller makes on it.  `child` is 0 for
\* None and otherwise numbers the fork that made the child; `stdin` is the
\* child's stdin handle ("none" without a child, "open", "taken"); `call` and
\* `res` are the last call made and what it returned; `forks` counts the
\* children forked and `written` the bytes written to the child's stdin.
ProcessNew == [child |-> 0, input |-> 0, ptrace |-> FALSE, stdin |-> "none",
               forks |-> 0, written |-> 0, call |-> "new", res |-> "none"]

Init ==
    /\ kstate = [p \in Pids |-> "unused"]
    /\ stopsLeft = [p \in Pids |-> 0]
    /\ sigpending = FALSE
    /\ wstatus = [p \in Pids |-> "none"]
    /\ reaped = [p \in Pids |-> <<>>]
    /\ reuse = FALSE
    /\ now = 0
    /\ rpc = "sigwait"
    /\ holder = Unlocked
    /\ poisoned = FALSE
    /\ proc_chans = [p \in Pids |-> 0]
    /\ chans = [c \in Chans |-> NoChan]
    /\ task = [t \in Tasks |-> NewTask]
    /\ thr = [t \in Thr |-> IF t = MainThread THEN [NoThread EXCEPT !.st = "run"]
                                               ELSE NoThread]
    /\ once = "incomplete"
    /\ nwaiters = 0
    /\ nstarts = 0
    /\ sigchld = "none"
    /\ solver = NewCall
    /\ proc = ProcessNew

\* ---------------------------------------------------------------- kernel
\* The pids fork may return: never one of a process that still exists.  The
\* kernel hands out fresh pids in ascending order; a reaped pid is handed out
\* again only when `reuse` holds (the pid counter has wrapped around).
FreePids ==
    LET fresh == {p \in Pids : kstate[p] = "unused"}
        first == {p \in fresh : \A q \in fresh : p <= q}
    IN  IF reuse THEN first \cup {p \in Pids : kstate[p] = "reaped"} ELSE first

\* waitpid would report a state change of p: a trace-stop not yet reported, or a
\* zombie.
Waitable(p) == kstate[p] \in {"stop_pending", "exited", "signaled"}

\* The WaitStatus waitpid reports for p.
StatusOf(p) ==
    CASE kstate[p] = "stop_pending" -> "Stopped"
      [] kstate[p] = "exited" -> "Exited"
      [] kstate[p] = "signaled" -> "Signaled"

\* What waitpid leaves behind: a stop is marked reported, a zombie is reaped.
AfterWait(p) == IF kstate[p] = "stop_pending" THEN "stopped" ELSE "reaped"

\* A traced child stops (at exec, or on a signal): SIGCHLD is raised for the tracer.
ChildStop(p) ==
    /\ kstate[p] = "running"
    /\ stopsLeft[p] > 0
    /\ kstate' = [kstate EXCEPT ![p] = "stop_pending"]
    /\ stopsLeft' = [stopsLeft EXCEPT ![p] = @ - 1]
    /\ sigpending' = TRUE
    /\ UNCHANGED <<wstatus, reaped, reuse, others, now, rpc, mutex, waiter, task>>

\* A child calls exit: it becomes a zombie and SIGCHLD is raised.
ChildExit(p) ==
    /\ kstate[p] = "running"
    /\ stopsLeft[p] = 0
    /\ kstate' = [kstate EXCEPT ![p] = "exited"]
    /\ sigpending' = TRUE
    /\ UNCHANGED <<stopsLeft, wstatus, reaped, reuse, others, now, rpc, mutex, waiter, task>>

\* A child is killed by a signal (running or stopped): a zombie with status
\* Signaled, and SIGCHLD is raised.
ChildKilled(p) ==
    /\ kstate[p] \in {"running", "stop_pending", "stopped"}
    /\ kstate' = [kstate EXCEPT ![p] = "signaled"]
    /\ stopsLeft' = [stopsLeft EXCEPT ![p] = 0]
    /\ sigpending' = TRUE
    /\ UNCHANGED <<wstatus, reaped, reuse, others, now, rpc, mutex, waiter, task>>

\* Time passes.  The clock is read only inside finish, so it is advanced only
\* while some finish waits in recv_timeout.
Tick ==
    /\ now < MaxTime
    /\ \E t \in Tasks : task[t].pc = "recv"
    /\ now' = now + 1
    /\ UNCHANGED <<kernel, reuse, others, rpc, mutex, waiter, task>>

\* ---------------------------------------------------------------- channels
\* The smallest channel id not yet used.
FreeChan == CHOOSE c \in Chans :
    /\ chans[c].creator = "none"
    /\ \A d \in Chans : chans[d].creator = "none" => c <= d

\* As EntryOrInsert, but with insert(pid, ChanPair::new()): an entry that is
\* already there is replaced (the old ChanPair is dropped).
EntryInsert(p, who) ==
    LET old == proc_chans[p]
        ch0 == IF old = 0 THEN chans
               ELSE [chans EXCEPT ![old].sender = FALSE,
                                  ![old].receiver = IF @ = "inpair" THEN "dropped" ELSE @]
    IN  [map |-> [proc_chans EXCEPT ![p] = FreeChan],
         ch |-> [ch0 EXCEPT ![FreeChan] = ChanPairNew(p, who)],
         c |-> FreeChan]

\* proc_chans.entry(pid).or_insert_with(ChanPair::new): the maps after the call.
EntryOrInsert(p, who) ==
    IF proc_chans[p] # 0
    THEN [map |-> proc_chans, ch |-> chans, c |-> proc_chans[p]]
    ELSE [map |-> [proc_chans EXCEPT ![p] = FreeChan],
          ch |-> [chans EXCEPT ![FreeChan] = ChanPairNew(p, who)],
          c |-> FreeChan]

\* As Remove, but nothing is removed.
RemoveNothing(p) == [map |-> proc_chans, ch |-> chans]

\* proc_chans.remove(pid): the ChanPair is dropped, and its sender with it.
Remove(p) ==
    IF proc_chans[p] = 0
    THEN [map |-> proc_chans, ch |-> chans]
    ELSE [map |-> [proc_chans EXCEPT ![p] = 0],
          ch |-> [chans EXCEPT ![proc_chans[p]].sender = FALSE,
                               ![proc_chans[p]].receiver =
                                   IF @ = "inpair" THEN "dropped" ELSE @]]

\* Dropping a Receiver: the channel is disconnected for its sender.
DropReceiver(ch, c) ==
    IF c = 0 THEN ch
    ELSE [ch EXCEPT ![c].receiver = "dropped", ![c].queue = <<>>]

\* As Sent, but the value is put at the front of the queue.
SentFront(q, data) == <<data>> \o q

\* Sender::send on a connected channel: the value is put at the back of the
\* queue.
Sent(q, data) == Append(q, data)

\* ---------------------------------------------------------------- reaper
\* As SendKey, but every result is filed under the first pid.
SendKeyFirst(pid) == 1

\* The key under which the reaper files a wait result: the pid waitpid returned.
SendKey(pid) == pid

\* sigtimedwait returns SIGCHLD: the pending signal is dequeued.
SigReceive ==
    /\ rpc = "sigwait"
    /\ sigpending
    /\ sigpending' = FALSE
    /\ rpc' = "lock"
    /\ UNCHANGED <<kstate, stopsLeft, wstatus, reaped, reuse, others, now, mutex, waiter, task>>

\* sigtimedwait returns -1 (EAGAIN after 1 s with no signal, or another errno):
\* both arms `continue`, back to sigtimedwait.
SigTimeout ==
    /\ rpc = "sigwait"
    /\ ~sigpending
    /\ rpc' = "sigwait"
    /\ UNCHANGED <<kernel, reuse, others, now, mutex, waiter, task>>

\* waiter_lock.lock().unwrap(): blocks while the mutex is held; panics when it
\* is poisoned.
ReaperLock ==
    /\ rpc = "lock"
    /\ holder = Unlocked
    /\ IF poisoned
       THEN rpc' = "dead" /\ UNCHANGED holder
       ELSE rpc' = "drain" /\ holder' = ReaperThread
    /\ UNCHANGED <<kernel, reuse, others, now, poisoned, waiter, task>>

\* As WaitpidBreak, but the guard of the mutex is kept across the next
\* sigtimedwait.
WaitpidBreakHolding ==
    /\ rpc = "drain"
    /\ \A p \in Pids : ~Waitable(p)
    /\ rpc' = "sigwait"
    /\ UNCHANGED <<kernel, reuse, others, now, mutex, waiter, task>>

\* waitpid(None, WNOHANG) finds nothing to report: ECHILD (no child exists) or
\* StillAlive; the drain loop breaks and the mutex is released.
WaitpidBreak ==
    /\ rpc = "drain"
    /\ \A p \in Pids : ~Waitable(p)
    /\ rpc' = "sigwait"
    /\ holder' = Unlocked
    /\ UNCHANGED <<kernel, reuse, others, now, poisoned, waiter, task>>

\* As WaitpidSend, but the reaper removes the entry once it has sent a result
\* that ends the child.
WaitpidSendRemove(p) ==
    /\ rpc = "drain"
    /\ Waitable(p)
    /\ kstate' = [kstate EXCEPT ![p] = AfterWait(p)]
    /\ wstatus' = [wstatus EXCEPT ![p] = StatusOf(p)]
    /\ reaped' = [reaped EXCEPT ![p] = Append(@, StatusOf(p))]
    /\ LET e == EntryOrInsert(SendKey(p), "reaper")
           data == WaitData(p, StatusOf(p))
           sent == [e.ch EXCEPT ![e.c].queue = Sent(@, data)]
       IN  IF e.ch[e.c].receiver = "dropped"
           THEN /\ proc_chans' = e.map
                /\ chans' = e.ch
                /\ rpc' = "dead"
                /\ holder' = Unlocked
                /\ poisoned' = TRUE
           ELSE /\ proc_chans' = IF StatusOf(p) = "Stopped" THEN e.map
                                 ELSE [e.map EXCEPT ![p] = 0]
                /\ chans' = IF StatusOf(p) = "Stopped" THEN sent
                            ELSE [sent EXCEPT ![e.c].sender = FALSE]
                /\ UNCHANGED <<rpc, mutex>>
    /\ UNCHANGED <<stopsLeft, sigpending, reuse, others, now, task>>

\* waitpid(None, WNOHANG) reports child p: the result is filed under its pid
\* (a ChanPair is created when there is none) and sent.  send fails when the
\* receiver was dropped: expect panics, the thread ends and the mutex it holds is
\* poisoned.
WaitpidSend(p) ==
    /\ rpc = "drain"
    /\ Waitable(p)
    /\ kstate' = [kstate EXCEPT ![p] = AfterWait(p)]
    /\ wstatus' = [wstatus EXCEPT ![p] = StatusOf(p)]
    /\ reaped' = [reaped EXCEPT ![p] = Append(@, StatusOf(p))]
    /\ LET e == EntryOrInsert(SendKey(p), "reaper")
           data == WaitData(p, StatusOf(p))
       IN  /\ proc_chans' = e.map
           /\ IF e.ch[e.c].receiver = "dropped"
              THEN /\ chans' = e.ch
                   /\ rpc' = "dead"
                   /\ holder' = Unlocked
                   /\ poisoned' = TRUE
              ELSE /\ chans' = [e.ch EXCEPT ![e.c].queue = Sent(@, data)]
                   /\ UNCHANGED <<rpc, mutex>>
    /\ UNCHANGED <<stopsLeft, sigpending, reuse, others, now, task>>

Reaper == SigReceive \/ SigTimeout \/ ReaperLock \/ WaitpidBreak
            \/ \E p \in Pids : WaitpidSend(p)

Kernel == Tick \/ \E p \in Pids : ChildStop(p) \/ ChildExit(p) \/ ChildKilled(p)

\* ---------------------------------------------------------------- spawner
\* A thread that panics unwinds: what it owns is dropped (a ProcessHandle's
\* Receiver with it).
\* What is left of a thread's record then: how it ended, the pid of its handle
\* and what its calls had returned.
Ended(t, how, msg) ==
    [NewTask EXCEPT !.pc = how, !.panic = msg, !.pid = task[t].pid,
                    !.startres = task[t].startres, !.spawnres = task[t].spawnres,
                    !.recvres = task[t].recvres, !.result = task[t].result,
                    !.retpid = task[t].retpid, !.removed = task[t].removed]

Panicked(t, msg) == Ended(t, "panicked", msg)

\* finish returns: its locals (start, time_left, data) are gone.
Returned(t, res, p) ==
    [task[t] EXCEPT !.pc = "returned", !.result = res, !.retpid = p,
                    !.timeout = 0, !.start = 0, !.time_left = 0, !.recv_at = 0,
                    !.data = NoData]

\* The read end of the child's stdin pipe is open while the child lives.
StdinOpen(p) == kstate[p] \in {"running", "stop_pending", "stopped"}

\* spawn_process, first statement: process.start().expect(..).  Process::start
\* forks and execs (with TRACEME before exec when ptrace is set); when that
\* fails it returns Err(IoError), on which expect panics.  `stops` is the number
\* of trace-stops a traced child makes; threads are named in the order in which
\* they start.
Start(t, ptrace, input, ok, stops) ==
    /\ task[t].pc = "new"
    /\ \A u \in Tasks : u < t => task[u].pc # "new"
    /\ IF ok /\ FreePids # {}
       THEN \E p \in FreePids :
              /\ kstate' = [kstate EXCEPT ![p] = "running"]
              /\ stopsLeft' = [stopsLeft EXCEPT ![p] = IF ptrace THEN stops ELSE 0]
              /\ wstatus' = [wstatus EXCEPT ![p] = "none"]
              /\ reaped' = [reaped EXCEPT ![p] = <<>>]
              /\ task' = [task EXCEPT ![t] = [@ EXCEPT !.pc = "started",
                              !.ptrace = ptrace, !.input = input, !.child = p,
                              !.startres = "Ok"]]
       ELSE /\ task' = [task EXCEPT ![t] = [Panicked(t, "Failed to spawn process!")
                              EXCEPT !.startres = "IoError", !.spawnres = "panic"]]
            /\ UNCHANGED <<kstate, stopsLeft, wstatus, reaped>>
    /\ UNCHANGED <<sigpending, reuse, others, now, rpc, mutex, waiter>>

\* The child takes bytes from its stdin pipe: only a running program does, and
\* a traced child is stopped at exec before its program runs, and is continued
\* only by finish.
Reading(t) == kstate[task[t].child] = "running" /\ ~task[t].ptrace

\* stdin.write_all(buf) is a blocking write to a pipe of bounded capacity: it
\* returns when the buffer fits in the pipe, when the child takes the bytes, or
\* with an error when the read end is closed.
WriteReturns(t) ==
    \/ task[t].input <= PipeCap
    \/ Reading(t)
    \/ ~StdinOpen(task[t].child)

\* process.write_input().unwrap(); process.close_stdin().unwrap(): write_all of
\* the input buffer to the child's stdin, then the stdin handle is taken and
\* dropped.  Writing a non-empty buffer to a pipe whose reader is gone fails
\* (EPIPE) and unwrap panics.
WriteInput(t) ==
    /\ task[t].pc = "started"
    /\ WriteReturns(t)
    /\ IF task[t].input = 0 \/ StdinOpen(task[t].child)
       THEN task' = [task EXCEPT ![t] = [@ EXCEPT !.pc = "closed", !.input = 0]]
       ELSE task' = [task EXCEPT ![t] = [Panicked(t, "write_input") EXCEPT
                                            !.spawnres = "panic"]]
    /\ UNCHANGED <<kernel, reuse, others, now, rpc, mutex, waiter>>

\* Where spawn_process stands when it reaches self.inner.lock(): the statements
\* run in program order, so write_input and close_stdin have returned.
StdinPending(t) == task[t].pc \in {"started", "closed"}

StdinClosed(t) == task[t].pc = "closed"

\* self.inner.lock().unwrap() in spawn_process.
RegisterLock(t) ==
    /\ StdinClosed(t)
    /\ holder = Unlocked
    /\ IF poisoned
       THEN /\ task' = [task EXCEPT ![t] = [Panicked(t, "PoisonError") EXCEPT
                                               !.spawnres = "panic"]]
            /\ UNCHANGED holder
       ELSE /\ task' = [task EXCEPT ![t].pc = "reg"]
            /\ holder' = t
    /\ UNCHANGED <<kernel, reuse, others, now, rpc, poisoned, waiter>>

\* The critical section of spawn_process: entry(pid).or_insert_with(ChanPair::new)
\* .take_recv(), then the ProcessHandle is built.  take_recv panics when the
\* receiver is no longer in the pair; the mutex is held then, and is poisoned.
Register(t) ==
    /\ task[t].pc = "reg"
    /\ LET pid == task[t].child
           e == EntryOrInsert(pid, "spawner")
       IN  IF e.ch[e.c].receiver = "inpair"
           THEN /\ proc_chans' = e.map
                /\ chans' = [e.ch EXCEPT ![e.c].receiver = "taken"]
                /\ task' = [task EXCEPT ![t] = [@ EXCEPT !.pc = "handle",
                                !.pid = pid, !.recv = e.c, !.spawnres = "Handle"]]
                /\ UNCHANGED poisoned
           ELSE /\ proc_chans' = e.map
                /\ chans' = e.ch
                /\ task' = [task EXCEPT ![t] = [Panicked(t, "Already took receiver!")
                                EXCEPT !.spawnres = "panic"]]
                /\ poisoned' = TRUE
    /\ holder' = Unlocked
    /\ UNCHANGED <<kernel, reuse, others, now, rpc>>

\* ---------------------------------------------------------------- handle
\* finish(timeout), entry: start = Instant::now(); time_left = timeout; then
\* the first recv_timeout(time_left) is entered.
FinishCall(t, timeout) ==
    /\ task[t].pc \in {"handle", "returned"}
    /\ task' = [task EXCEPT ![t] = [@ EXCEPT !.pc = "recv", !.timeout = timeout,
                    !.start = now, !.time_left = timeout, !.recv_at = now,
                    !.recvres = "none", !.data = NoData, !.result = "none",
                    !.retpid = 0]]
    /\ UNCHANGED <<kernel, reuse, others, now, rpc, mutex, waiter>>

\* ptrace::cont(self.pid) succeeds on a tracee that is stopped.
ContOk(p) == kstate[p] \in {"stopped", "stop_pending"}

\* As TimedOut, but the child is killed.
TimedOutKill(p) == [kstate EXCEPT ![p] = "signaled"]

\* finish gives up (`TODO - kill process?`): the processes after
\* `return Err(SolverError::new(Runner::Timeout, "child timed out"))`.  Nothing
\* is done to the child.
TimedOut(p) == kstate

\* finish: recv_timeout returns a WaitData.  An Exited status leads to the
\* removal of the entry; any other status goes through the timeout arithmetic
\* and, for a traced Process, ptrace::cont.
RecvData(t) ==
    /\ task[t].pc = "recv"
    /\ chans[task[t].recv].queue # <<>>
    /\ LET data == Head(chans[task[t].recv].queue)
           elapsed == now - task[t].start
           got == [task[t] EXCEPT !.recvres = "data", !.data = data,
                                  !.events = Append(@, data.status)]
           popped == [chans EXCEPT ![task[t].recv].queue = Tail(@)]
       IN  IF data.status = "Exited"
           THEN /\ task' = [task EXCEPT ![t] = [got EXCEPT !.pc = "rm_wait"]]
                /\ chans' = popped
                /\ UNCHANGED kstate
           ELSE IF elapsed > task[t].timeout \/ task[t].time_left < elapsed
           THEN /\ task' = [task EXCEPT ![t] = [Returned(t, "Timeout", 0) EXCEPT
                                !.events = Append(@, data.status)]]
                /\ chans' = popped
                /\ kstate' = TimedOut(task[t].pid)
           ELSE IF ~task[t].ptrace
           THEN /\ task' = [task EXCEPT ![t] = [got EXCEPT
                                !.time_left = @ - elapsed, !.recv_at = now]]
                /\ chans' = popped
                /\ UNCHANGED kstate
           ELSE IF ContOk(task[t].pid)
           THEN /\ task' = [task EXCEPT ![t] = [got EXCEPT
                                !.time_left = @ - elapsed, !.recv_at = now]]
                /\ chans' = popped
                /\ kstate' = [kstate EXCEPT ![task[t].pid] = "running"]
           ELSE /\ task' = [task EXCEPT ![t] =
                                [Panicked(t, "Failed to call ptrace::cont") EXCEPT
                                    !.recvres = "data", !.result = "panic"]]
                /\ chans' = DropReceiver(popped, task[t].recv)
                /\ UNCHANGED kstate
    /\ UNCHANGED <<stopsLeft, sigpending, wstatus, reaped, reuse, others, now, rpc, mutex, proc_chans>>

\* finish: recv_timeout(time_left) finds the queue empty until time_left has
\* passed and returns Err(Timeout); expect("Receieve error!") panics on it.
RecvTimeout(t) ==
    /\ task[t].pc = "recv"
    /\ chans[task[t].recv].queue = <<>>
    /\ chans[task[t].recv].sender
    /\ now - task[t].recv_at >= task[t].time_left
    /\ task' = [task EXCEPT ![t] = [Panicked(t, "Receieve error!") EXCEPT
                    !.recvres = "Timeout", !.result = "panic"]]
    /\ chans' = DropReceiver(chans, task[t].recv)
    /\ UNCHANGED <<kernel, reuse, others, now, rpc, mutex, proc_chans>>

\* finish: recv_timeout finds the queue empty and the Sender dropped (the entry
\* was removed) and returns Err(Disconnected); expect panics on it.
RecvDisconnected(t) ==
    /\ task[t].pc = "recv"
    /\ chans[task[t].recv].queue = <<>>
    /\ ~chans[task[t].recv].sender
    /\ task' = [task EXCEPT ![t] = [Panicked(t, "Receieve error!") EXCEPT
                    !.recvres = "Disconnected", !.result = "panic"]]
    /\ chans' = DropReceiver(chans, task[t].recv)
    /\ UNCHANGED <<kernel, reuse, others, now, rpc, mutex, proc_chans>>

\* finish, Exited arm: self.inner.lock().unwrap().
RemoveLock(t) ==
    /\ task[t].pc = "rm_wait"
    /\ holder = Unlocked
    /\ IF poisoned
       THEN /\ task' = [task EXCEPT ![t] = [Panicked(t, "PoisonError") EXCEPT
                            !.result = "panic"]]
            /\ chans' = DropReceiver(chans, task[t].recv)
            /\ UNCHANGED holder
       ELSE /\ task' = [task EXCEPT ![t].pc = "rm"]
            /\ holder' = t
            /\ UNCHANGED chans
    /\ UNCHANGED <<kernel, reuse, others, now, rpc, poisoned, proc_chans>>

\* The pid finish removes from proc_chans: that of the WaitData received.
RemoveKey(t) == task[t].data.pid

\* finish, Exited arm: proc_chans.remove(&data.pid); return Ok(data.pid).
RemoveEntry(t) ==
    /\ task[t].pc = "rm"
    /\ LET r == Remove(RemoveKey(t))
       IN  /\ proc_chans' = r.map
           /\ chans' = r.ch
    /\ task' = [task EXCEPT ![t] = [Returned(t, "Ok", task[t].data.pid) EXCEPT
                    !.removed = TRUE]]
    /\ holder' = Unlocked
    /\ UNCHANGED <<kernel, reuse, others, now, rpc, poisoned>>

\* As DropHandle, but dropping the handle also removes its pid's entry.
DropHandleRemoves(t) ==
    /\ task[t].pc \in {"handle", "returned"}
    /\ task' = [task EXCEPT ![t] = Ended(t, "dropped", "none")]
    /\ proc_chans' = [proc_chans EXCEPT ![task[t].pid] = 0]
    /\ chans' = DropReceiver(chans, task[t].recv)
    /\ UNCHANGED <<kernel, reuse, others, now, rpc, mutex>>

\* The ProcessHandle goes out of scope: its Receiver is dropped.  Nothing else
\* happens (ProcessHandle has no Drop impl): the child and the proc_chans entry
\* stay as they are.
DropHandle(t) ==
    /\ task[t].pc \in {"handle", "returned"}
    /\ task' = [task EXCEPT ![t] = Ended(t, "dropped", "none")]
    /\ chans' = DropReceiver(chans, task[t].recv)
    /\ UNCHANGED <<kernel, reuse, others, now, rpc, mutex, proc_chans>>

Spawner(t) ==
    \/ \E ptrace \in BOOLEAN, input \in 0..MaxInput, ok \in BOOLEAN, stops \in 1..MaxStops :
         Start(t, ptrace, input, ok, stops)
    \/ WriteInput(t)
    \/ RegisterLock(t)
    \/ Register(t)

Handle(t) ==
    \/ \E timeout \in 0..MaxTime : FinishCall(t, timeout)
    \/ RecvData(t)
    \/ RecvTimeout(t)
    \/ RecvDisconnected(t)
    \/ RemoveLock(t)
    \/ RemoveEntry(t)
    \/ DropHandle(t)

Next == Kernel \/ Reaper \/ \E t \in Tasks : Spawner(t) \/ Handle(t)

Spec == Init /\ [][Next]_vars

\* ---------------------------------------------------------------- one spawn
\* spawn_process alone, with payloads up to MaxPayload, and the threads
\* scheduled fairly: a thread that can take a step does so in the end.  What
\* the children do is theirs to choose, and no fairness is asked of it.
OneSpawner == {1}

SpawnStep(t) ==
    \/ \E ptrace \in BOOLEAN, input \in 0..MaxPayload, ok \in BOOLEAN,
          stops \in 1..MaxEvents : Start(t, ptrace, input, ok, stops)
    \/ WriteInput(t)
    \/ RegisterLock(t)
    \/ Register(t)

SpawnNext ==
    \/ \E p \in Pids : ChildStop(p) \/ ChildExit(p) \/ ChildKilled(p)
    \/ Reaper
    \/ \E t \in OneSpawner : SpawnStep(t)

SpawnSpec ==
    /\ Init
    /\ [][SpawnNext]_vars
    /\ WF_vars(Reaper)
    /\ \A t \in OneSpawner : WF_vars(SpawnStep(t))

\* ---------------------------------------------------------------- lost signals
\* A SIGCHLD that the kernel hands to a thread which does not block it never
\* reaches the reaper's sigtimedwait (block_signal has to be called in every
\* thread); here such a thread exists and takes the pending signal.
SigchldLost ==
    /\ sigpending
    /\ sigpending' = FALSE
    /\ UNCHANGED <<kstate, stopsLeft, wstatus, reaped, reuse, others, now, rpc,
                   mutex, waiter, task>>

LostNext == SpawnNext \/ SigchldLost

\* The threads are scheduled fairly, as in SpawnSpec.  The return of
\* sigtimedwait after its timeout (SigTimeout) changes nothing: the loop goes
\* straight back to sigtimedwait.
LostSpec ==
    /\ Init
    /\ [][LostNext]_vars
    /\ WF_vars(Reaper)
    /\ \A t \in OneSpawner : WF_vars(SpawnStep(t))

\* ---------------------------------------------------------------- pid reuse
\* The kernel's pid counter wraps around: from now on the pid of a reaped
\* child may be given to a new child.
PidWrap ==
    /\ ~reuse
    /\ reuse' = TRUE
    /\ UNCHANGED <<kernel, others, now, rpc, mutex, waiter, task>>

\* The service on a system that reuses pids, at one instant of the clock (no
\* Tick: a recv_timeout then times out only for a timeout of zero).
ReuseNext ==
    \/ PidWrap
    \/ \E p \in Pids : ChildStop(p) \/ ChildExit(p) \/ ChildKilled(p)
    \/ Reaper
    \/ \E t \in Tasks : Spawner(t) \/ Handle(t)

ReuseSpec == Init /\ [][ReuseNext]_vars

\* ---------------------------------------------------------------- one finish
\* The service with a single spawner thread, followed over a longer time and
\* more trace-stops: the timeout arithmetic of finish.
OneTask == {1}

\* Time passes while the finish waits in recv_timeout.
LongTick ==
    /\ now < MaxClock
    /\ \E t \in OneTask : task[t].pc = "recv"
    /\ now' = now + 1
    /\ UNCHANGED <<kernel, reuse, others, rpc, mutex, waiter, task>>

FinishNext ==
    \/ LongTick
    \/ \E p \in Pids : ChildStop(p) \/ ChildExit(p) \/ ChildKilled(p)
    \/ Reaper
    \/ \E t \in OneTask :
          \/ \E ptrace \in BOOLEAN, input \in 0..MaxInput, ok \in BOOLEAN,
                stops \in 1..MaxEvents : Start(t, ptrace, input, ok, stops)
          \/ WriteInput(t)
          \/ RegisterLock(t)
          \/ Register(t)
          \/ \E timeout \in 0..MaxClock : FinishCall(t, timeout)
          \/ RecvData(t)
          \/ RecvTimeout(t)
          \/ RecvDisconnected(t)
          \/ RemoveLock(t)
          \/ RemoveEntry(t)
          \/ DropHandle(t)

FinishSpec == Init /\ [][FinishNext]_vars

\* ---------------------------------------------------------------- start-up
\* The construction of the WAITER singleton and the SIGCHLD mask of every
\* thread.  A thread is "run" (in the host's code), "new" (inside
\* ProcessWaiter::new, the struct built), "masked" (block_signal done), "wait"
\* (blocked on the Once while another thread constructs), "spawned" (the reaper
\* thread before its first statement) or "panicked".
Live(t) == thr[t].st \notin {"none", "panicked"}

\* std::thread::spawn: the new thread starts with its creator's signal mask.
ThreadCreate(parent, child) ==
    /\ thr[parent].st = "run"
    /\ thr[child].st = "none"
    /\ \A w \in Workers : w < child => thr[w].st # "none"
    /\ thr' = [thr EXCEPT ![child] = [NoThread EXCEPT !.st = "run",
                                          !.blocked = thr[parent].blocked,
                                          !.born = thr[parent].blocked]]
    /\ UNCHANGED <<service, solver, proc, once, nwaiters, nstarts, sigchld>>

\* As Masked, but the mask of the calling thread is left as it is.
MaskedNot(t) == [thr[t] EXCEPT !.called = TRUE]

\* block_signal: pthread_sigmask(SIG_BLOCK, {SIGCHLD}) on the calling thread.
Masked(t) == [thr[t] EXCEPT !.blocked = TRUE, !.called = TRUE]

\* The host calls block_signal (or WAITER.init_for_thread) on thread t.
BlockSignal(t) ==
    /\ thr[t].st = "run"
    /\ ~thr[t].called
    /\ thr' = [thr EXCEPT ![t] = Masked(t)]
    /\ UNCHANGED <<service, solver, proc, once, nwaiters, nstarts, sigchld>>

\* As OnceFree, but a construction that is under way is not seen.
OnceFreeRacy == once # "complete"

\* The Once of lazy_static: the initializer is still to be run.
OnceFree == once = "incomplete"

\* Thread t dereferences WAITER for the first time and finds the initializer
\* still to be run: it runs ProcessWaiter::new, which first builds the struct
\* with started: false.
Deref(t) ==
    /\ thr[t].st = "run"
    /\ ~thr[t].uses
    /\ OnceFree
    /\ once' = "running"
    /\ nwaiters' = nwaiters + 1
    /\ thr' = [thr EXCEPT ![t] = [@ EXCEPT !.st = "new", !.started = FALSE]]
    /\ UNCHANGED <<service, solver, proc, nstarts, sigchld>>

\* Thread t dereferences WAITER while another thread runs the initializer: it
\* blocks on the Once.
DerefWait(t) ==
    /\ thr[t].st = "run"
    /\ ~thr[t].uses
    /\ ~OnceFree
    /\ once = "running"
    /\ thr' = [thr EXCEPT ![t].st = "wait"]
    /\ UNCHANGED <<service, solver, proc, once, nwaiters, nstarts, sigchld>>

\* Thread t dereferences WAITER (or wakes up on the Once) once the initializer
\* has completed: it gets the reference.
DerefDone(t) ==
    /\ thr[t].st \in {"run", "wait"}
    /\ ~thr[t].uses
    /\ once = "complete"
    /\ thr' = [thr EXCEPT ![t] = [@ EXCEPT !.st = "run", !.uses = TRUE]]
    /\ UNCHANGED <<service, solver, proc, once, nwaiters, nstarts, sigchld>>

\* ProcessWaiter::new, second statement: block_signal().
NewBlock(t) ==
    /\ thr[t].st = "new"
    /\ thr' = [thr EXCEPT ![t] = [Masked(t) EXCEPT !.st = "masked"]]
    /\ UNCHANGED <<service, solver, proc, once, nwaiters, nstarts, sigchld>>

\* ProcessWaiter::new, third statement: waiter.start_thread(), which panics
\* when `started` is set, and otherwise sets it and spawns the reaper thread;
\* then new returns and the Once completes.
StartThread(t) ==
    /\ thr[t].st = "masked"
    /\ IF thr[t].started
       THEN /\ thr' = [thr EXCEPT ![t].st = "panicked"]
            /\ UNCHANGED <<once, nstarts>>
       ELSE /\ thr' = [thr EXCEPT ![t] = [@ EXCEPT !.st = "run", !.started = TRUE,
                                                  !.uses = TRUE],
                                  ![WaitingThread] = [NoThread EXCEPT !.st = "spawned",
                                                  !.blocked = thr[t].blocked,
                                                  !.born = thr[t].blocked]]
            /\ nstarts' = nstarts + 1
            /\ once' = "complete"
    /\ UNCHANGED <<service, solver, proc, nwaiters, sigchld>>

\* spawn_waiting_thread, first statement of the new thread: block_signal().
ReaperBlock ==
    /\ thr[WaitingThread].st = "spawned"
    /\ thr' = [thr EXCEPT ![WaitingThread] = [Masked(WaitingThread) EXCEPT !.st = "run"]]
    /\ UNCHANGED <<service, solver, proc, once, nwaiters, nstarts, sigchld>>

\* The kernel raises SIGCHLD for the process.  It stays pending when every
\* thread blocks it; otherwise it is delivered to a thread that does not block
\* it, where its default disposition discards it.
RaiseSigchld ==
    /\ once = "complete"
    /\ sigchld # "pending"
    /\ sigchld' = IF \A t \in Thr : Live(t) => thr[t].blocked
                  THEN "pending" ELSE "discarded"
    /\ UNCHANGED <<service, solver, proc, thr, once, nwaiters, nstarts>>

\* The reaper's sigtimedwait dequeues the pending SIGCHLD.
ReaperDequeue ==
    /\ thr[WaitingThread].st = "run"
    /\ sigchld = "pending"
    /\ sigchld' = "dequeued"
    /\ UNCHANGED <<service, solver, proc, thr, once, nwaiters, nstarts>>

StartupNext ==
    \/ \E parent \in {MainThread} \cup Workers, child \in Workers :
          ThreadCreate(parent, child)
    \/ \E t \in {MainThread} \cup Workers :
          BlockSignal(t) \/ Deref(t) \/ DerefWait(t) \/ DerefDone(t)
             \/ NewBlock(t) \/ StartThread(t)
    \/ ReaperBlock
    \/ RaiseSigchld
    \/ ReaperDequeue

StartupSpec == Init /\ [][StartupNext]_vars

\* ---------------------------------------------------------------- DynamorioSolver
\* The child's stdout is a sequence of tokens: "P" stands for the text
\* "Instrumentation results: ", "S" for " instructions executed", "0".."9" are
\* the ASCII digits, "U+0663" is a decimal digit that is not ASCII, "x" is any
\* other character and "\n" a line end.  An instruction count is kept as
\* NLimbs limbs of LimbDigits decimal digits each, most significant first.
Base == 10000
LimbDigits == 4
NLimbs == 5

AsciiDigits == <<"0", "1", "2", "3", "4", "5", "6", "7", "8", "9">>

\* The limbs of a number below Base^2.
Limbs(k) == <<0, 0, 0, k \div Base, k % Base>>

\* i32::MAX = 2147483647.
I32Max == <<0, 0, 21, 4748, 3647>>

\* i64::MAX = 9223372036854775807, the largest value of `num2: i64`.
I64Max == <<922, 3372, 368, 5477, 5807>>

\* a <= b for two numbers.
RECURSIVE LimbsLeq(_, _)
LimbsLeq(a, b) ==
    IF a = <<>> THEN TRUE
    ELSE IF Head(a) # Head(b) THEN Head(a) < Head(b)
    ELSE LimbsLeq(Tail(a), Tail(b))

\* The instruction counts the child prints in the model.
Numbers ==
    {Limbs(k) : k \in 0..MaxSmall}
        \cup {Limbs(4217), Limbs(10000), Limbs(99999999),
              <<0, 0, 21, 4748, 3647>>, <<0, 0, 21, 4748, 3648>>,
              <<0, 0, 42, 9496, 7296>>,
              <<922, 3372, 368, 5477, 5806>>, <<922, 3372, 368, 5477, 5807>>,
              <<922, 3372, 368, 5477, 5808>>, <<1844, 6744, 737, 955, 1615>>,
              <<9999, 9999, 9999, 9999, 9999>>}

\* The decimal digits of one limb, zero-padded.
LimbText(x) == <<x \div 1000, (x \div 100) % 10, (x \div 10) % 10, x % 10>>

RECURSIVE StripZeros(_)
StripZeros(ds) == IF Len(ds) > 1 /\ Head(ds) = 0 THEN StripZeros(Tail(ds)) ELSE ds

\* n in decimal, as the instrumentation tool prints it: no sign, no leading
\* zeros.
Decimal(n) ==
    LET ds == StripZeros(LimbText(n[1]) \o LimbText(n[2]) \o LimbText(n[3])
                            \o LimbText(n[4]) \o LimbText(n[5]))
    IN  [i \in 1..Len(ds) |-> AsciiDigits[ds[i] + 1]]

\* The line of the tool's output that carries the count n.
Line(n) == <<"P">> \o Decimal(n) \o <<"S">>

\* \d of the regex crate: any Unicode decimal digit.
IsDigit(c) == c = "U+0663" \/ \E d \in 1..10 : AsciiDigits[d] = c

\* The number of digits that follow position i of s.
RECURSIVE DigitRun(_, _)
DigitRun(s, i) ==
    IF i < Len(s) /\ IsDigit(s[i + 1]) THEN 1 + DigitRun(s, i + 1) ELSE 0

\* The regex matches at position i: "P", one or more digits (greedy), "S".
MatchAt(s, i) ==
    /\ s[i] = "P"
    /\ DigitRun(s, i) >= 1
    /\ i + DigitRun(s, i) + 1 <= Len(s)
    /\ s[i + DigitRun(s, i) + 1] = "S"

\* As Captures, but a stdout without a match yields the text "0".
CapturesOrZero(s) ==
    LET at == {i \in 1..Len(s) : MatchAt(s, i)}
        first == CHOOSE i \in at : \A j \in at : i <= j
    IN  IF at = {} THEN <<"0">> ELSE SubSeq(s, first + 1, first + DigitRun(s, first))

\* re.captures(&stdout), then &caps[caps.len() - 1]: the text of the capture
\* group of the leftmost match; the empty text stands for None.
Captures(s) ==
    LET at == {i \in 1..Len(s) : MatchAt(s, i)}
        first == CHOOSE i \in at : \A j \in at : i <= j
    IN  IF at = {} THEN <<>> ELSE SubSeq(s, first + 1, first + DigitRun(s, first))

\* The value of an ASCII digit.
DigitVal(c) == (CHOOSE d \in 1..10 : AsciiDigits[d] = c) - 1

\* v * 10 + carry, limb by limb from the least significant limb i down.
RECURSIVE MulAdd(_, _, _)
MulAdd(v, i, carry) ==
    IF i = 0 THEN [v |-> v, carry |-> carry]
    ELSE MulAdd([v EXCEPT ![i] = (v[i] * 10 + carry) % Base], i - 1,
                (v[i] * 10 + carry) \div Base)

\* cap.parse::<i64>(): digit by digit, checked_mul(10) and checked_add(digit);
\* a character that is not an ASCII digit, or an overflow of i64, is an Err,
\* for which the empty sequence stands.
RECURSIVE ParseFrom(_, _)
ParseFrom(text, acc) ==
    IF text = <<>> THEN acc
    ELSE IF \A d \in 1..10 : AsciiDigits[d] # Head(text) THEN <<>>
    ELSE LET r == MulAdd(acc, NLimbs, DigitVal(Head(text)))
         IN  IF r.carry > 0 \/ ~LimbsLeq(r.v, I64Max) THEN <<>>
             ELSE ParseFrom(Tail(text), r.v)

Parse(text) == ParseFrom(text, Limbs(0))

\* What the child may write before and after the line that carries its count.
Before ==
    {<<>>, <<"x", "\n">>, <<"P", "x", "S", "\n">>, <<"P", "S">>, <<"P", "1", "x">>,
     <<"1", "S", "\n">>, Line(Limbs(7)) \o <<"\n">>}
After == {<<>>, <<"\n", "x">>, <<"\n">> \o Line(Limbs(8)), <<"9">>}

\* What a child prints in place of that line when it prints no count.
NoLine == {<<>>, <<"P", "U+0663", "S">>}

\* return Err(SolverError::new(kind, message)), or `?` on such an Err.
SolverErr(kind, message) ==
    [solver EXCEPT !.pc = "done", !.result = kind, !.message = message]

\* get_inst_count is entered: data.vars.get("dynpath").unwrap() panics when
\* the key is absent; otherwise the Process is built.
GetInstCount(dynpath) ==
    /\ solver.pc = "idle"
    /\ solver' = IF dynpath
                 THEN [solver EXCEPT !.pc = "built", !.dynpath = TRUE]
                 ELSE [solver EXCEPT !.pc = "panicked", !.result = "panic"]
    /\ UNCHANGED <<service, startup, proc>>

\* proccess.spawn(): WAITER.spawn_process, which returns a handle or panics.
SolverSpawn(ok) ==
    /\ solver.pc = "built"
    /\ solver' = IF ok
                 THEN [solver EXCEPT !.pc = "spawned", !.spawned = @ + 1]
                 ELSE [solver EXCEPT !.pc = "panicked", !.result = "panic"]
    /\ UNCHANGED <<service, startup, proc>>

\* As SolverFinish, but the error of finish is not returned with `?`: the call
\* goes on to read_stdout.
SolverFinishUnchecked(res) ==
    /\ solver.pc = "spawned"
    /\ solver' = CASE res \in {"Ok", "Timeout"} ->
                        [solver EXCEPT !.pc = "finished", !.finres = res]
                   [] OTHER -> [solver EXCEPT !.pc = "panicked", !.finres = res,
                                               !.result = "panic"]
    /\ UNCHANGED <<service, startup, proc>>

\* handle.finish(Duration::new(5, 0))?: finish returns Ok or Err(Timeout), or
\* panics.
SolverFinish(res) ==
    /\ solver.pc = "spawned"
    /\ solver' = CASE res = "Ok" -> [solver EXCEPT !.pc = "finished", !.finres = res]
                   [] res = "Timeout" ->
                        [SolverErr("Timeout", "child timed out") EXCEPT !.finres = res]
                   [] OTHER -> [solver EXCEPT !.pc = "panicked", !.finres = res,
                                               !.result = "panic"]
    /\ UNCHANGED <<service, startup, proc>>

\* handle.read_stdout(&mut buf)?: the child's whole stdout, or an io::Error.
SolverRead(ok, before, n, after) ==
    /\ solver.pc = "finished"
    /\ solver' = IF ok
                 THEN [solver EXCEPT !.pc = "read", !.reads = @ + 1, !.readres = "Ok",
                          !.stdout = before \o (IF n \in Numbers THEN Line(n) ELSE n)
                                            \o after,
                          !.n = IF n \in Numbers THEN n ELSE <<>>,
                          !.first = n \in Numbers /\ Captures(before) = <<>>]
                 ELSE [SolverErr("IoError", "read") EXCEPT !.reads = @ + 1,
                                                             !.readres = "IoError"]
    /\ UNCHANGED <<service, startup, proc>>

\* Lines 38-53: the regex, the capture group, cap.parse().unwrap(), Ok(num2).
SolverParse ==
    /\ solver.pc = "read"
    /\ LET cap == Captures(solver.stdout)
       IN  solver' =
             IF cap = <<>>
             THEN SolverErr("IoError", "Could not parse dynamorio Instruction count")
             ELSE IF Parse(cap) = <<>>
             THEN [solver EXCEPT !.pc = "panicked", !.result = "panic"]
             ELSE [solver EXCEPT !.pc = "done", !.result = "Ok", !.value = Parse(cap)]
    /\ UNCHANGED <<service, startup, proc>>

SolverNext ==
    \/ \E dynpath \in BOOLEAN : GetInstCount(dynpath)
    \/ \E ok \in BOOLEAN : SolverSpawn(ok)
    \/ \E res \in {"Ok", "Timeout", "panic"} : SolverFinish(res)
    \/ \E ok \in BOOLEAN, before \in Before, n \in Numbers \cup NoLine, after \in After :
          SolverRead(ok, before, n, after)
    \/ SolverParse

SolverSpec == Init /\ [][SolverNext]_vars

\* ---------------------------------------------------------------- Process
\* The caller still owns the Process: spawn(self) has not consumed it.
Owned == proc.call # "spawn"

\* Process::input.
ProcInput(v) ==
    /\ Owned
    /\ proc' = [proc EXCEPT !.input = v, !.call = "input", !.res = "none"]
    /\ UNCHANGED <<service, startup, solver>>

\* Process::with_ptrace.
ProcWithPtrace(b) ==
    /\ Owned
    /\ proc' = [proc EXCEPT !.ptrace = b, !.call = "with_ptrace", !.res = "none"]
    /\ UNCHANGED <<service, startup, solver>>

\* As HasChild, but the answer is always no.
HasChildNever == FALSE

\* self.child.is_some()
HasChild == proc.child # 0

\* Process::start: Err(Unknown) when there is a child already; otherwise
\* cmd.spawn(), whose child is stored, or whose error is returned as IoError.
ProcStart(ok) ==
    /\ Owned
    /\ proc.forks < MaxForks
    /\ proc' = IF HasChild
               THEN [proc EXCEPT !.call = "start", !.res = "Unknown"]
               ELSE IF ok
               THEN [proc EXCEPT !.call = "start", !.res = "Ok", !.forks = @ + 1,
                                 !.child = proc.forks + 1, !.stdin = "open"]
               ELSE [proc EXCEPT !.call = "start", !.res = "IoError"]
    /\ UNCHANGED <<service, startup, solver>>

\* Process::child_id.
ProcChildId ==
    /\ Owned
    /\ proc' = [proc EXCEPT !.call = "child_id",
                            !.res = IF HasChild THEN "Ok" ELSE "IoError"]
    /\ UNCHANGED <<service, startup, solver>>

\* Process::write_input (write_stdin of the input buffer): RunnerError without
\* a child, IoError when the stdin handle was taken, else write_all, which
\* succeeds or fails with an io::Error.
ProcWriteInput(ok) ==
    /\ Owned
    /\ proc.written + proc.input <= MaxWritten
    /\ proc' = [proc EXCEPT !.call = "write_input",
                            !.res = IF ~HasChild THEN "RunnerError"
                                    ELSE IF proc.stdin # "open" \/ ~ok THEN "IoError"
                                    ELSE "Ok",
                            !.written = IF HasChild /\ proc.stdin = "open" /\ ok
                                        THEN @ + proc.input ELSE @]
    /\ UNCHANGED <<service, startup, solver>>

\* Process::close_stdin: RunnerError without a child; the stdin handle is taken
\* and dropped, or last_os_error is returned when it was taken before.
ProcCloseStdin ==
    /\ Owned
    /\ proc' = [proc EXCEPT !.call = "close_stdin",
                            !.res = IF ~HasChild THEN "RunnerError"
                                    ELSE IF proc.stdin # "open" THEN "IoError"
                                    ELSE "Ok",
                            !.stdin = IF HasChild THEN "taken" ELSE @]
    /\ UNCHANGED <<service, startup, solver>>

\* Process::spawn(self): the Process is moved into WAITER.spawn_process, whose
\* process.start().expect(..) panics on the Err of start, and which goes on to
\* write the input and close stdin when start succeeded.
ProcSpawn(ok) ==
    /\ Owned
    /\ proc.forks < MaxForks
    /\ proc' = IF HasChild \/ ~ok
               THEN [proc EXCEPT !.call = "spawn", !.res = "panic"]
               ELSE [proc EXCEPT !.call = "spawn", !.res = "Handle", !.forks = @ + 1,
                                 !.child = proc.forks + 1, !.stdin = "taken",
                                 !.written = proc.input]
    /\ UNCHANGED <<service, startup, solver>>

ProcessNext ==
    \/ \E v \in 0..MaxInput : ProcInput(v)
    \/ \E b \in BOOLEAN : ProcWithPtrace(b)
    \/ \E ok \in BOOLEAN : ProcStart(ok)
    \/ ProcChildId
    \/ \E ok \in BOOLEAN : ProcWriteInput(ok)
    \/ ProcCloseStdin
    \/ \E ok \in BOOLEAN : ProcSpawn(ok)

ProcessSpec == Init /\ [][ProcessNext]_vars

\* ================================================================ claims
\* A thread holds a ProcessHandle whose finish has not yet received Exited.
Awaiting(t) == task[t].pc \in {"handle", "recv", "returned"} /\ ~task[t].removed

\* The events queued for the handle of thread t.
QueueOf(t) == chans[task[t].recv].queue

\* C1: race-free registration.  Whenever the reaper has reaped the normal exit
\* of a handle's child, also when it did so before spawn_process took the
\* receiver, the Exited event of that pid is in the handle's channel until
\* finish receives it; and a finish that returns Ok returns the handle's pid,
\* whose child has exited.
RaceFreeRegistration ==
    \A t \in Tasks :
        /\ (Awaiting(t) /\ wstatus[task[t].pid] = "Exited")
              => \E i \in 1..Len(QueueOf(t)) :
                    QueueOf(t)[i] = WaitData(task[t].pid, "Exited")
        /\ task[t].result = "Ok"
              => task[t].retpid = task[t].pid /\ wstatus[task[t].pid] = "Exited"

\* C1 witness: finish returned Ok(pid) on a handle whose ChanPair the reaper had
\* created, the untraced child having been reaped before the spawner registered.
RaceWitness ==
    \E t \in Tasks :
        /\ task[t].pc = "returned"
        /\ task[t].result = "Ok"
        /\ task[t].retpid = task[t].pid
        /\ ~task[t].ptrace
        /\ chans[task[t].recv].creator = "reaper"

\* C2: every finish ends as Ok, Timeout or IoError, never in any other way
\* (such as a panic).
FinishResultKinds ==
    \A t \in Tasks : task[t].result \in {"none", "Ok", "Timeout", "IoError"}

\* C3: when the channel receive inside finish times out, finish returns
\* Err(Timeout).
RecvTimeoutReturnsTimeout ==
    \A t \in Tasks : task[t].recvres = "Timeout" => task[t].result = "Timeout"

\* C4: a spawn whose fork/exec fails yields an IoError value to the caller.
SpawnFailureIsValue ==
    \A t \in Tasks : task[t].startres = "IoError" => task[t].spawnres = "IoError"

\* C5: every WaitData queued in the channel stored under key p has pid p, and
\* every WaitData a handle has received has the handle's pid.
PidMatchesQueue ==
    /\ \A p \in Pids : proc_chans[p] # 0 =>
          \A i \in 1..Len(chans[proc_chans[p]].queue) :
              chans[proc_chans[p]].queue[i].pid = p
    /\ \A t \in Tasks : task[t].data # NoData => task[t].data.pid = task[t].pid

\* C5 witness: a handle has received an event while an event is queued for
\* another pid.
PidMatchesWitness ==
    \E t \in Tasks, p \in Pids :
        /\ task[t].data # NoData
        /\ p # task[t].pid
        /\ proc_chans[p] # 0
        /\ chans[proc_chans[p]].queue # <<>>

\* C6: once every child spawned through the waiter has had its finish return
\* Ok, proc_chans is empty.
AllFinishedEmpty ==
    ( /\ \E t \in Tasks : task[t].pc # "new"
      /\ \A t \in Tasks : task[t].pc # "new" => task[t].result = "Ok" )
    => \A p \in Pids : proc_chans[p] = 0

\* C6 witness: every thread has spawned a child and its finish has returned Ok.
AllFinishedWitness ==
    \A t \in Tasks : task[t].pc = "returned" /\ task[t].result = "Ok"

\* (a) of C7: a spawner has taken the receiver for p and its finish has not yet
\* run the removal of its Exited arm.
Registered(p) ==
    \E t \in Tasks :
        task[t].pid = p /\ task[t].spawnres = "Handle" /\ ~task[t].removed

\* (b) of C7: the reaper created a ChanPair for p whose receiver no spawner has
\* taken yet.
Placeholder(p) ==
    \E c \in Chans :
        chans[c].key = p /\ chans[c].creator = "reaper" /\ chans[c].receiver = "inpair"

\* C7: proc_chans has an entry for p iff a spawner has registered interest in p
\* and not yet consumed its exit in finish, or the reaper inserted a placeholder
\* for p that no spawner has taken yet.
EntryIff ==
    \A p \in Pids : proc_chans[p] # 0 <=> (Registered(p) \/ Placeholder(p))

\* C7 witness: one pid has a placeholder entry and another the entry of a
\* registered spawner.
EntryIffWitness ==
    \E p, q \in Pids :
        /\ Placeholder(p) /\ ~Registered(p)
        /\ Registered(q) /\ ~Placeholder(q)

\* C8: an entry leaves proc_chans only in the step in which a finish that
\* received Exited for that pid removes it.
OnlyFinishRemoves ==
    [][\A p \in Pids :
          (proc_chans[p] # 0 /\ proc_chans'[p] = 0) =>
              \E t \in Tasks :
                  /\ task[t].pc = "rm"
                  /\ task[t].data = WaitData(p, "Exited")
                  /\ task'[t].result = "Ok"]_vars

\* C8 witness: a finish has removed its pid's entry, while the entry of a
\* dropped handle is still there.
OnlyFinishRemovesWitness ==
    \E t, u \in Tasks :
        /\ task[t].result = "Ok" /\ proc_chans[task[t].pid] = 0
        /\ task[u].pc = "dropped" /\ ~task[u].removed /\ proc_chans[task[u].pid] # 0

\* C9: the reaper thread never terminates.
ReaperNeverDies == rpc # "dead"

\* C10: a handle dropped before it observed Exited leaves the reaper running
\* and the waiter mutex usable.
DropIsHarmless ==
    (\E t \in Tasks : task[t].pc = "dropped" /\ ~task[t].removed)
        => rpc # "dead" /\ ~poisoned

\* ---------------------------------------------------------------- start-up claims
\* C11 as stated: whenever the waiter exists, SIGCHLD is blocked on every live
\* thread, whichever thread constructed the waiter and whenever the others were
\* created, and no SIGCHLD is consumed by anything but the reaper's dequeue.
SigchldBlockedEverywhere ==
    once = "complete" =>
        /\ \A t \in Thr : Live(t) => thr[t].blocked
        /\ sigchld # "discarded"

\* C11, amended: whenever the waiter exists, SIGCHLD is blocked on the thread
\* that constructed it and on the reaper thread, and on exactly those live
\* threads that were created with SIGCHLD blocked or have called block_signal;
\* hence on every thread when each thread of the host is one of these.
SigchldBlockedWhereArranged ==
    once = "complete" =>
        /\ \A t \in Thr : thr[t].started => thr[t].blocked
        /\ Live(WaitingThread) /\ thr[WaitingThread].blocked
        /\ \A t \in Thr : Live(t) => (thr[t].blocked <=> (thr[t].born \/ thr[t].called))
        /\ (\A t \in {MainThread} \cup Workers : Live(t) => (thr[t].born \/ thr[t].called))
              => \A t \in Thr : Live(t) => thr[t].blocked

\* C11 witness: the waiter was constructed by a worker created before anything
\* blocked SIGCHLD; the main thread still has it unblocked, a thread created by
\* the constructing thread has inherited the block, and a SIGCHLD was discarded.
SigchldBlockedWitness ==
    /\ once = "complete"
    /\ ~thr[MainThread].blocked
    /\ \E t, u \in Workers :
          /\ thr[t].started /\ ~thr[t].born /\ thr[t].blocked
          /\ Live(u) /\ thr[u].born /\ ~thr[u].called
    /\ thr[WaitingThread].st = "run"
    /\ sigchld = "discarded"

\* C12: at most one ProcessWaiter is ever constructed and at most one reaper
\* thread ever started, however the first uses of WAITER interleave; once
\* WAITER is initialised there is exactly one of each, before that no reaper;
\* and start_thread never finds `started` set.
OneWaiterOneReaper ==
    /\ nwaiters <= 1
    /\ nstarts <= 1
    /\ once = "complete" => nwaiters = 1 /\ nstarts = 1 /\ Live(WaitingThread)
    /\ once # "complete" => nstarts = 0 /\ thr[WaitingThread].st = "none"
    /\ Cardinality({t \in Thr : thr[t].started}) = nstarts
    /\ \A t \in Thr : thr[t].st # "panicked"

\* C12 witness: every thread of the host holds a reference to WAITER, one
\* having constructed it and another having waited on the Once meanwhile.
OneWaiterWitness ==
    /\ \A t \in {MainThread} \cup Workers : thr[t].uses
    /\ nstarts = 1
    /\ \E t \in Thr : thr[t].started /\ t # MainThread

\* ---------------------------------------------------------------- service claims
\* C13: the waiter mutex is held only by the reaper while it drains waitpid and
\* by a thread inside the critical section of spawn_process or of finish's
\* Exited arm: never by a reaper in sigtimedwait, nor by a thread in fork/exec,
\* in the stdin write, waiting for the lock or in recv_timeout; and a send of
\* the draining reaper is never blocked.
MutexDiscipline ==
    /\ holder = ReaperThread <=> rpc = "drain"
    /\ \A t \in Tasks : holder = t <=> task[t].pc \in {"reg", "rm"}
    /\ rpc = "drain" => \A p \in Pids : Waitable(p) => ENABLED WaitpidSend(p)

\* C13 witness: the reaper drains under the mutex while one thread is blocked
\* in the recv_timeout of finish and another is in the stdin write of
\* spawn_process.
MutexDisciplineWitness ==
    /\ holder = ReaperThread
    /\ \E p \in Pids : Waitable(p)
    /\ \E t, u \in Tasks : task[t].pc = "recv" /\ task[u].pc = "started"

\* The WaitStatus values of a queue of WaitData, in order.
Statuses(q) == [i \in 1..Len(q) |-> q[i].status]

\* Thread t holds a ProcessHandle (and so the Receiver of its pid's channel).
HasHandle(t) == task[t].pc \in {"handle", "recv", "rm_wait", "rm", "returned"}

\* C14: for every pid, the events its handle has received so far, followed by
\* those still queued in its channel, are exactly the statuses waitpid returned
\* for that pid, in the order in which it returned them; the same holds for the
\* queue of a ChanPair whose receiver no spawner has taken yet.
EventsInOrder ==
    /\ \A t \in Tasks :
          HasHandle(t) =>
              task[t].events \o Statuses(QueueOf(t)) = reaped[task[t].pid]
    /\ \A p \in Pids :
          (proc_chans[p] # 0 /\ chans[proc_chans[p]].receiver = "inpair") =>
              Statuses(chans[proc_chans[p]].queue) = reaped[p]

\* C14 witness: a handle has received the first of two events of its pid while
\* the second is queued, and two events are queued for another pid.
EventsInOrderWitness ==
    \E t \in Tasks, p \in Pids :
        /\ HasHandle(t)
        /\ Len(task[t].events) = 1
        /\ Len(QueueOf(t)) = 1
        /\ p # task[t].pid
        /\ proc_chans[p] # 0
        /\ Len(chans[proc_chans[p]].queue) = 2

\* C15: a step in which finish returns Timeout leaves every child as it was
\* (none killed, stopped, continued or reaped, no SIGCHLD raised) and leaves
\* the proc_chans entry of the handle's pid in place.
TimeoutLeavesChild ==
    [][\A t \in Tasks :
          (task[t].result # "Timeout" /\ task'[t].result = "Timeout") =>
              /\ kstate' = kstate
              /\ stopsLeft' = stopsLeft
              /\ sigpending' = sigpending
              /\ proc_chans[task[t].pid] # 0
              /\ proc_chans'[task[t].pid] = proc_chans[task[t].pid]]_vars

\* C15 witness: finish has returned Timeout on a traced child that is still
\* stopped, its entry still in proc_chans.
TimeoutLeavesChildWitness ==
    \E t \in Tasks :
        /\ task[t].pc = "returned"
        /\ task[t].result = "Timeout"
        /\ kstate[task[t].pid] = "stopped"
        /\ proc_chans[task[t].pid] # 0

\* ---------------------------------------------------------------- solver claims
\* 2^63 - 1, the largest count of C16.
CountMax == <<922, 3372, 368, 5477, 5807>>

\* C16: when read_stdout returned a stdout whose first match of the regex is
\* the line "Instrumentation results: n instructions executed", with n in
\* decimal and 0 <= n <= 2^63 - 1, get_inst_count returns Ok(n).
ParseInvertsFormat ==
    ( /\ solver.pc \in {"done", "panicked"}
      /\ solver.readres = "Ok"
      /\ solver.first
      /\ LimbsLeq(solver.n, CountMax) )
    => solver.result = "Ok" /\ solver.value = solver.n

\* C16 witness: Ok(2^63 - 1) was returned for a stdout that has text before the
\* line and a second matching line after it.
ParseInvertsFormatWitness ==
    /\ solver.pc = "done"
    /\ solver.result = "Ok"
    /\ solver.n = CountMax
    /\ solver.value = CountMax
    /\ solver.first
    /\ solver.stdout = <<"P", "1", "x">> \o Line(CountMax) \o <<"\n">> \o Line(Limbs(8))

\* C17: when finish and read_stdout returned Ok and the stdout has no match of
\* the regex, get_inst_count returns Err(IoError, "Could not parse dynamorio
\* Instruction count") and no count.
NoMatchIsIoError ==
    ( /\ solver.pc \in {"done", "panicked"}
      /\ solver.finres = "Ok"
      /\ solver.readres = "Ok"
      /\ \A i \in 1..Len(solver.stdout) : ~MatchAt(solver.stdout, i) )
    => /\ solver.pc = "done"
       /\ solver.result = "IoError"
       /\ solver.message = "Could not parse dynamorio Instruction count"
       /\ solver.value = <<>>

\* C17 witness: the error was returned for a stdout that has the words of the
\* line but no digits between them.
NoMatchIsIoErrorWitness ==
    /\ solver.pc = "done"
    /\ solver.finres = "Ok"
    /\ solver.result = "IoError"
    /\ solver.message = "Could not parse dynamorio Instruction count"
    /\ solver.stdout = <<"P", "x", "S", "\n", "\n", "x">>

\* C18: a call of get_inst_count whose configuration has no "dynpath" returns
\* Err(MissingArgs) and spawns no process.
MissingDynpathIsValue ==
    (solver.pc # "idle" /\ ~solver.dynpath)
        => solver.result = "MissingArgs" /\ solver.spawned = 0

\* ---------------------------------------------------------------- Process claims
\* C19: a call of start on a Process that has a child returns Err(Unknown) and
\* changes nothing else: no fork, the same child, the same input buffer, the
\* same ptrace flag; and no Process ever forks twice.
StartAtMostOnce ==
    [][/\ (proc.child # 0 /\ proc'.call = "start" /\ proc' # proc)
            => proc' = [proc EXCEPT !.call = "start", !.res = "Unknown"]
       /\ proc'.forks <= 1]_vars

\* C19 witness: start has returned Err(Unknown) on a traced Process with a
\* non-empty input buffer and the child of its only fork.
StartAtMostOnceWitness ==
    /\ proc.call = "start"
    /\ proc.res = "Unknown"
    /\ proc.child = 1
    /\ proc.forks = 1
    /\ proc.ptrace
    /\ proc.input > 0

\* ---------------------------------------------------------------- finish claims
\* C20: whenever finish waits in recv_timeout, the time it waits for is the
\* timeout less the time that had passed since finish was entered when the
\* wait began.
RecvWaitsForRest ==
    \A t \in Tasks :
        task[t].pc = "recv" =>
            task[t].time_left = task[t].timeout - (task[t].recv_at - task[t].start)

\* C21: a step in which the finish of a traced Process receives a trace-stop
\* before its deadline (less than `timeout` after finish was entered) issues
\* ptrace::cont on the pid (the child runs again, or the call fails and finish
\* panics) and, the child continued, goes back to recv_timeout; and no step
\* of the finish of an untraced Process changes the run state of any child.
TraceStopsContinued ==
    [][\A t \in Tasks :
          /\ ( /\ task[t].pc = "recv"
               /\ task[t].ptrace
               /\ QueueOf(t) # <<>>
               /\ Head(QueueOf(t)).status = "Stopped"
               /\ now - task[t].start < task[t].timeout
               /\ task'[t] # task[t] )
             => \/ kstate'[task[t].pid] = "running" /\ task'[t].pc = "recv"
                \/ task'[t].panic = "Failed to call ptrace::cont"
          /\ ( /\ task[t].pc \in {"recv", "rm_wait", "rm"}
               /\ ~task[t].ptrace
               /\ task'[t] # task[t] )
             => kstate' = kstate]_vars

\* C22: spawn_process runs in the order fork/exec, write the whole input, close
\* stdin, lock the mutex, register: a task comes to the write only from a
\* successful start, takes the lock only with stdin written and closed, builds
\* its handle (entry looked up or inserted, receiver taken) only from the
\* critical section, and while it registers no input is left unwritten.
SpawnOrder ==
    [][\A t \in Tasks :
          /\ (task'[t].pc = "started" /\ task[t].pc # "started")
                => task[t].pc = "new" /\ task'[t].startres = "Ok"
          /\ (task'[t].pc = "closed" /\ task[t].pc # "closed")
                => task[t].pc = "started" /\ task'[t].input = 0
          /\ (task'[t].pc = "reg" /\ task[t].pc # "reg")
                => task[t].pc = "closed" /\ task[t].input = 0 /\ holder' = t
          /\ (task'[t].pc = "handle" /\ task[t].pc # "handle")
                => /\ task[t].pc = "reg"
                   /\ holder = t
                   /\ proc_chans'[task[t].child] = task'[t].recv
                   /\ chans'[task'[t].recv].receiver = "taken"]_vars

SpawnOrderWitness ==
    \E t \in Tasks :
        /\ task[t].pc = "reg"
        /\ task[t].ptrace
        /\ task[t].startres = "Ok"
        /\ task[t].input = 0
        /\ holder = t
        /\ proc_chans[task[t].child] = 0

\* C23: spawn_process always terminates: a spawner that has started its child
\* leaves spawn_process in the end (with a handle, or by a panic), whatever
\* the size of the payload and whether or not the child is traced.
SpawnTerminates ==
    \A t \in OneSpawner :
        (task[t].pc \in {"started", "closed", "reg"})
            ~> (task[t].pc \notin {"started", "closed", "reg"})

\* C24: coalesced signals lose no events: every wait result the reaper obtains
\* is sent on the channel filed under its pid; the reaper goes back to
\* sigtimedwait only when waitpid has nothing more to report; and a child
\* whose state change is still unreported always has a SIGCHLD pending or a
\* reaper that is on its way to, or inside, the drain loop.
CoalescedEventsDelivered ==
    [][/\ \A p \in Pids :
             Len(reaped'[p]) > Len(reaped[p])
                => /\ proc_chans'[p] # 0
                   /\ chans'[proc_chans'[p]].queue # <<>>
                   /\ chans'[proc_chans'[p]].queue[Len(chans'[proc_chans'[p]].queue)]
                         = WaitData(p, reaped'[p][Len(reaped'[p])])
       /\ (rpc = "drain" /\ rpc' = "sigwait") => \A p \in Pids : ~Waitable(p)
       /\ \A p \in Pids :
             kstate'[p] \in {"stop_pending", "exited", "signaled"}
                => sigpending' \/ rpc' \in {"lock", "drain"}]_vars

\* C25: the periodic wakeup covers lost signals: a child whose state change is
\* unreported is in the end reaped by the reaper's waitpid, also when its
\* SIGCHLD never reaches the reaper.
LostSignalCovered ==
    \A p \in Pids : Waitable(p) ~> ~Waitable(p)

\* C26: in get_inst_count read_stdout is called only after finish has returned
\* Ok; when finish returns an error the call returns that error and has read
\* nothing of the child's stdout.
ReadOnlyAfterFinishOk ==
    /\ solver.reads > 0 => solver.finres = "Ok"
    /\ solver.pc \in {"finished", "read"} => solver.finres = "Ok"
    /\ solver.finres = "Timeout"
          => /\ solver.pc = "done"
             /\ solver.result = "Timeout"
             /\ solver.reads = 0
             /\ solver.readres = "none"
             /\ solver.stdout = <<>>

\* C26 witness: finish timed out on a spawned child and the call returned the
\* Timeout error without a read.
ReadOnlyAfterFinishOkWitness ==
    /\ solver.spawned > 0
    /\ solver.finres = "Timeout"
    /\ solver.pc = "done"
    /\ solver.result = "Timeout"
    /\ solver.reads = 0

\* C27: a step in which finish, its timeout unexpired, receives the event that
\* ends its child (Exited, or Signaled for a fatal signal) takes finish to the
\* removal of the pid's entry, after which it returns: finish neither waits
\* for further events nor ends otherwise.
TerminationObserved ==
    [][\A t \in Tasks :
          ( /\ task[t].pc = "recv"
            /\ QueueOf(t) # <<>>
            /\ Head(QueueOf(t)).status \in {"Exited", "Signaled"}
            /\ now - task[t].start <= task[t].timeout
            /\ task'[t] # task[t] )
          => task'[t].pc = "rm_wait"]_vars

\* C28: the receiver of a ChanPair is taken at most once: spawn_process never
\* panics with "Already took receiver!", and no two handles hold the receiver
\* of one ChanPair, also when the pid of a reaped child is given to a new
\* child while the old entry is still in proc_chans.
ReceiverTakenOnce ==
    /\ \A t \in Tasks : task[t].panic # "Already took receiver!"
    /\ \A t, u \in Tasks :
          (t # u /\ HasHandle(t) /\ HasHandle(u)) => task[t].recv # task[u].recv

====
